---- MODULE Spec2Model ----
(***************************************************************************)
(* Model of the booking flow of src/src/App.tsx: the App component's state *)
(* (bookings, cfg, servId, date, inicio, barberMode), its handlers         *)
(* (reservar, cancelar, the date effect, updateCfg, addService), the       *)
(* Supabase helpers                                                        *)
(* they await, and the two stores they write (the remote bookings table    *)
(* and the browser's localStorage).  Several App instances (tabs of one    *)
(* browser) run against the same stores.                                   *)
(*                                                                         *)
(* Conventions: a clock string "HH:MM" is the pair <<HH, MM>>; a Date is   *)
(* the record [dia] of its calendar day number (the code reads no more of  *)
(* a Date than its local year, month and day); an array that the code only *)
(* searches or filters is a set; the text fields of a booking (cliente,    *)
(* telefone, observacoes) are left out of the record.                      *)
(***************************************************************************)
EXTENDS Integers, Sequences, FiniteSets

(* ----------------------------- bounds --------------------------------- *)
NumSessions == 2    \* App instances sharing the stores
MaxBookings == 2    \* bookings ever created (identifiers 1..MaxBookings)
MaxDay == 2         \* calendar days 1..MaxDay can be selected
MaxTasks == 1       \* awaited calls one App instance may have in flight
MaxPick == 1        \* the user clicks one of the first MaxPick offered slots

Sessions == 1..NumSessions
Days == 1..MaxDay

(* ------------------------- program constants -------------------------- *)
undefined == -1     \* useState<number|undefined>(undefined)
Today == 1          \* the calendar day of new Date() (a Monday)

defaultServices ==
  << [id |-> 1, duracaoMin |-> 45],
     [id |-> 2, duracaoMin |-> 30],
     [id |-> 3, duracaoMin |-> 75],
     [id |-> 4, duracaoMin |-> 15] >>

defaultConfig ==
  [ intervaloMin   |-> 15,
    diasAtivos     |-> {1, 2, 3, 4, 5, 6},
    horaAbertura   |-> <<9, 0>>,
    horaFechamento |-> <<19, 0>> ]

(* ---------------------------- time helpers ---------------------------- *)
\* The mutant of timeToMin: hours and minutes swapped
timeToMinTrocado(t) == t[1] + t[2] * 60

\* const [h, m] = t.split(":").map(Number); return h * 60 + m
timeToMin(t) == t[1] * 60 + t[2]

minToTime(min) == << min \div 60, min % 60 >>

\* new Date(Date.UTC(y, m, d)).toISOString(): the key of the calendar day
dateToISO(d) == d.dia

\* Date.prototype.getDay(): 0 is Sunday
getDay(d) == d.dia % 7

getDayBookings(bks, day) == { b \in bks : b.dataISO = dateToISO(day) }

(* --------------------------- conflict tests --------------------------- *)
\* The mutant of conflitoCom: the closed-interval test, touching is a conflict
conflitoComFechado(ini, fim, b) == ~(fim < b.inicioMin \/ ini > b.fimMin)

\* reservar: bookings.some(b => !(fim <= b.inicioMin || inicio >= b.fimMin))
conflitoCom(ini, fim, b) == ~(fim <= b.inicioMin \/ ini >= b.fimMin)

conflito(ini, fim, bks) == \E b \in bks : conflitoCom(ini, fim, b)

\* The half-open overlap test of the availability engine
overlaps(aStart, aEnd, bStart, bEnd) == aStart < bEnd /\ bStart < aEnd

(* ------------------------------- state -------------------------------- *)
VARIABLES
  supabase,    \* TRUE iff the Supabase client was created (env configured)
  db,          \* the remote "bookings" table
  dbServices,  \* the remote "services" table
  lsBookings,  \* localStorage["barber.bookings.v1"]
  nextId,      \* the next fresh booking identifier (table key / randomUUID)
  services,    \* per App instance: useState services
  bookings,    \* per App instance: useState bookings
  cfg,         \* per App instance: useState cfg
  servId,      \* per App instance: useState servId
  date,        \* per App instance: useState date
  inicio,      \* per App instance: useState inicio
  barberMode,  \* per App instance: useState barberMode
  tasks,       \* per App instance: the awaited calls in flight
  adminTasks,  \* per App instance: the awaited calls of addService in flight
  toast,       \* the toast shown by the step just taken ("none": no toast)
  consoleErro  \* TRUE iff the step just taken called console.error

vars == << supabase, db, dbServices, lsBookings, nextId, services, bookings,
           cfg, servId, date, inicio, barberMode, tasks, adminTasks, toast,
           consoleErro >>

\* An awaited call: k is its kind, iso the day key it carries, ini/fim/sid the
\* booking being inserted, id the booking being deleted.
Task(k, iso, ini, fim, sid, id) ==
  [k |-> k, iso |-> iso, ini |-> ini, fim |-> fim, sid |-> sid, id |-> id]

FetchTask(k, iso) == Task(k, iso, 0, 0, 0, 0)

RemoveAt(seq, i) == SubSeq(seq, 1, i - 1) \o SubSeq(seq, i + 1, Len(seq))

ReplaceAt(seq, i, x) == [seq EXCEPT ![i] = x]

\* const servico = services.find(s => s.id === servId)
servicoDe(svcs, id) == { sv \in { svcs[i] : i \in 1..Len(svcs) } : sv.id = id }

temServico(s) == servicoDe(services[s], servId[s]) # {}

servico(s) == CHOOSE sv \in servicoDe(services[s], servId[s]) : TRUE

\* const diaAtivo = cfg.diasAtivos.includes(date.getDay())
diaAtivo(s) == getDay(date[s]) \in cfg[s].diasAtivos

(* ------------------------- availability engine ------------------------ *)
\* The mutant of configInvalida: the opening hours are not looked at
configInvalidaSoIntervalo(c) == c.intervaloMin <= 0

\* Invalid configuration: non-positive granularity, or opening >= closing
configInvalida(c) ==
  \/ c.intervaloMin <= 0
  \/ timeToMin(c.horaAbertura) >= timeToMin(c.horaFechamento)

\* The stepping loop: from cur, by step, while cur + dur <= closing; a start
\* is emitted iff [cur, cur + dur) overlaps no booking of busy.
RECURSIVE computeSlots(_, _, _, _, _)
computeSlots(cur, step, dur, closing, busy) ==
  IF cur + dur > closing
  THEN << >>
  ELSE (IF \E b \in busy : overlaps(cur, cur + dur, b.inicioMin, b.fimMin)
        THEN << >>
        ELSE << cur >>)
       \o computeSlots(cur + step, step, dur, closing, busy)

\* slotsDisponiveis(cfg, servico, date, bookings): erro is the configuration
\* error outcome, slots the ordered starts offered.
slotsDisponiveis(c, sv, d, bks) ==
  IF configInvalida(c)
  THEN [erro |-> TRUE, slots |-> << >>]
  ELSE IF getDay(d) \notin c.diasAtivos
  THEN [erro |-> FALSE, slots |-> << >>]
  ELSE [erro |-> FALSE,
        slots |-> computeSlots(timeToMin(c.horaAbertura), c.intervaloMin,
                               sv.duracaoMin, timeToMin(c.horaFechamento),
                               getDayBookings(bks, d))]

\* The mutant of disponiveis: the engine is handed the default configuration
disponiveisCfgPadrao(s) ==
  IF ~temServico(s)
  THEN << >>
  ELSE slotsDisponiveis(defaultConfig, servico(s), date[s], bookings[s]).slots

\* const disponiveis = useMemo(...)
disponiveis(s) ==
  IF ~temServico(s)
  THEN << >>
  ELSE slotsDisponiveis(cfg[s], servico(s), date[s], bookings[s]).slots

(* ------------------------------ initial ------------------------------- *)
\* new Date(): today
hoje == [dia |-> Today]

\* A day picked in the Calendar
diaDoCalendario(n) == [dia |-> n]

\* The state once the mount effects have run: localStorage is empty, so the
\* three load*Local() calls return their defaults; servId is services[0].id;
\* with Supabase the day fetch of the date effect is in flight.
Init ==
  /\ supabase \in BOOLEAN
  /\ db = {}
  /\ dbServices = << >>
  /\ adminTasks = [s \in Sessions |-> << >>]
  /\ lsBookings = {}
  /\ nextId = 1
  /\ services = [s \in Sessions |-> defaultServices]
  /\ bookings = [s \in Sessions |-> {}]
  /\ cfg = [s \in Sessions |-> defaultConfig]
  /\ servId = [s \in Sessions |-> defaultServices[1].id]
  /\ date = [s \in Sessions |-> hoje]
  /\ inicio = [s \in Sessions |-> undefined]
  /\ barberMode = [s \in Sessions |-> FALSE]
  /\ tasks = [s \in Sessions |->
                IF supabase THEN << FetchTask("fetch", dateToISO(hoje)) >>
                            ELSE << >>]
  /\ toast = "none"
  /\ consoleErro = FALSE

(* --------------------------- user inputs ------------------------------ *)
MaxServ == 1        \* the user clicks one of the first MaxServ services

\* What the client types as a name, and String.prototype.trim on it
ClienteChoices == {" ", "Ana"}

trim(x) == IF x = " " THEN "" ELSE x

\* What is typed into the PIN dialog
PinChoices == {1801, 1234}

\* What the administrator types into "Fecha as"
FechamentoChoices == { <<9, 30>> }

\* The weekday buttons the administrator clicks
DiaChoices == {1}

Min(a, b) == IF a < b THEN a ELSE b

(* ------------------------------ handlers ------------------------------ *)
\* ServiceBadge onClick: setServId(s.id); setInicio(undefined)
SelectService(s, i) ==
  /\ i \in 1..Len(services[s])
  /\ servId' = [servId EXCEPT ![s] = services[s][i].id]
  /\ inicio' = [inicio EXCEPT ![s] = undefined]
  /\ toast' = "none"
  /\ consoleErro' = FALSE
  /\ UNCHANGED << supabase, dbServices, adminTasks,
                  db, lsBookings, nextId, services, bookings, cfg,
                  date, barberMode, tasks >>

\* TimeButton onClick: setInicio(t), for a t of the rendered slot list
SelectSlot(s) ==
  /\ diaAtivo(s)
  /\ LET offered == disponiveis(s) IN
       \E i \in 1..Min(MaxPick, Len(offered)) :
         inicio' = [inicio EXCEPT ![s] = offered[i]]
  /\ toast' = "none"
  /\ consoleErro' = FALSE
  /\ UNCHANGED << supabase, dbServices, adminTasks,
                  db, lsBookings, nextId, services, bookings, cfg,
                  servId, date, barberMode, tasks >>

\* Calendar onSelect -> setDate(d), and the date effect it triggers: with
\* Supabase the day fetch is started; without, the day's bookings are read
\* from localStorage at once.  lim bounds the awaited calls in flight.
SetDateAte(s, n, lim) ==
  /\ n \in Days
  /\ date' = [date EXCEPT ![s] = diaDoCalendario(n)]
  /\ IF supabase
     THEN /\ Len(tasks[s]) < lim
          /\ tasks' = [tasks EXCEPT ![s] =
                         Append(@, FetchTask("fetch", dateToISO(diaDoCalendario(n))))]
          /\ UNCHANGED bookings
     ELSE /\ bookings' = [bookings EXCEPT ![s] =
                            getDayBookings(lsBookings, diaDoCalendario(n))]
          /\ UNCHANGED tasks
  /\ toast' = "none"
  /\ consoleErro' = FALSE
  /\ UNCHANGED << supabase, dbServices, adminTasks,
                  db, lsBookings, nextId, services, cfg, servId,
                  inicio, barberMode >>

\* SetDateAte with at most MaxTasks awaited calls in flight
SetDate(s, n) == SetDateAte(s, n, MaxTasks)

\* The PIN dialog's "Entrar" button
EntrarModoBarbeiro(s, pin) ==
  /\ ~barberMode[s]
  /\ pin \in PinChoices
  /\ barberMode' = [barberMode EXCEPT ![s] = (pin = 1801)]
  /\ toast' = IF pin = 1801 THEN "modoBarbeiro" ELSE "pinIncorreto"
  /\ consoleErro' = FALSE
  /\ UNCHANGED << supabase, dbServices, adminTasks,
                  db, lsBookings, nextId, services, bookings, cfg,
                  servId, date, inicio, tasks >>

\* "Sair do Modo Barbeiro": setBarberMode(false)
SairModoBarbeiro(s) ==
  /\ barberMode[s]
  /\ barberMode' = [barberMode EXCEPT ![s] = FALSE]
  /\ toast' = "none"
  /\ consoleErro' = FALSE
  /\ UNCHANGED << supabase, dbServices, adminTasks,
                  db, lsBookings, nextId, services, bookings, cfg,
                  servId, date, inicio, tasks >>

\* The weekday button's onClick: the set with day d toggled
toggleDia(dias, d) == IF d \in dias THEN dias \ {d} ELSE dias \cup {d}

\* updateCfg(k, v): next = {...cfg, [k]: v}; setCfg(next).  The AdminPanel
\* is rendered in barber mode only.  The copy of next that is saved (config
\* row, localStorage) is read back at mount alone and is not part of the state.
updateCfg(s, k, v) ==
  /\ barberMode[s]
  /\ cfg' = [cfg EXCEPT ![s] = [@ EXCEPT ![k] = v]]
  /\ toast' = "none"
  /\ consoleErro' = FALSE
  /\ UNCHANGED << supabase, dbServices, adminTasks,
                  db, lsBookings, nextId, services, bookings,
                  servId, date, inicio, barberMode, tasks >>

\* The AdminPanel inputs that call updateCfg
AdminEdit(s) ==
  \/ \E v \in FechamentoChoices : updateCfg(s, "horaFechamento", v)
  \/ \E d \in DiaChoices :
       updateCfg(s, "diasAtivos", toggleDia(cfg[s].diasAtivos, d))

(* ------------------------------ reservar ------------------------------ *)
\* { id, ...novo }: the booking with its identifier
comId(id, novo) ==
  [ id |-> id, dataISO |-> novo.dataISO, inicioMin |-> novo.inicioMin,
    fimMin |-> novo.fimMin, servicoId |-> novo.servicoId ]

\* return toast.error(...): nothing but the toast
Rejeitar(s, t) ==
  /\ toast' = t
  /\ consoleErro' = FALSE
  /\ UNCHANGED << supabase, dbServices, adminTasks,
                  db, lsBookings, nextId, services, bookings, cfg,
                  servId, date, inicio, barberMode, tasks >>

\* The rest of reservar once the checks passed: with Supabase, the insert is
\* sent and awaited; without, the booking gets its id, is appended to the
\* bookings state, the list is saved and the form cleared.
Confirmar(s, novo) ==
  IF supabase
  THEN /\ Len(tasks[s]) < MaxTasks
       /\ tasks' = [tasks EXCEPT ![s] =
                      Append(@, Task("insert", novo.dataISO, novo.inicioMin,
                                     novo.fimMin, novo.servicoId, 0))]
       /\ toast' = "none"
       /\ consoleErro' = FALSE
       /\ UNCHANGED << supabase, dbServices, adminTasks,
                  db, lsBookings, nextId, services, bookings,
                       cfg, servId, date, inicio, barberMode >>
  ELSE /\ nextId <= MaxBookings
       /\ LET list == bookings[s] \cup { comId(nextId, novo) } IN
            /\ bookings' = [bookings EXCEPT ![s] = list]
            /\ lsBookings' = list
       /\ nextId' = nextId + 1
       /\ inicio' = [inicio EXCEPT ![s] = undefined]
       /\ toast' = "confirmado"
       /\ consoleErro' = FALSE
       /\ UNCHANGED << supabase, dbServices, adminTasks,
                  db, services, cfg, servId, date, barberMode,
                       tasks >>

\* The booking reservar builds from the state of its render
novoDe(s) ==
  [ dataISO   |-> dateToISO(date[s]),
    inicioMin |-> inicio[s],
    fimMin    |-> inicio[s] + servico(s).duracaoMin,
    servicoId |-> servico(s).id ]

\* What reservar decides from the state of its render: "invalido" (one of
\* the four early returns), "conflito" (the overlap check) or "ok"
resultadoReservar(s, cliente) ==
  IF ~temServico(s) \/ ~diaAtivo(s) \/ inicio[s] = undefined \/ trim(cliente) = ""
  THEN "invalido"
  ELSE IF conflito(inicio[s], inicio[s] + servico(s).duracaoMin, bookings[s])
       THEN "conflito"
       ELSE "ok"

\* The mutant of Reservar: the conflict toast is shown without returning
ReservarSemReturn(s, cliente) ==
  IF resultadoReservar(s, cliente) = "invalido"
  THEN Rejeitar(s, "invalido")
  ELSE Confirmar(s, novoDe(s))

\* async function reservar(), up to its first await
Reservar(s, cliente) ==
  IF resultadoReservar(s, cliente) = "ok"
  THEN Confirmar(s, novoDe(s))
  ELSE Rejeitar(s, resultadoReservar(s, cliente))

\* reservar after await sbInsertBooking(novo): the row is in the table, the
\* success toast is shown and the day is fetched again
InsertDone(s, i) ==
  /\ i \in 1..Len(tasks[s])
  /\ tasks[s][i].k = "insert"
  /\ nextId <= MaxBookings
  /\ LET t == tasks[s][i] IN
       /\ db' = db \cup { comId(nextId, [dataISO |-> t.iso, inicioMin |-> t.ini,
                                           fimMin |-> t.fim, servicoId |-> t.sid]) }
       /\ tasks' = [tasks EXCEPT ![s] = ReplaceAt(@, i, FetchTask("refetchR", t.iso))]
  /\ nextId' = nextId + 1
  /\ toast' = "confirmado"
  /\ consoleErro' = FALSE
  /\ UNCHANGED << supabase, dbServices, adminTasks,
                  lsBookings, services, bookings, cfg, servId, date,
                  inicio, barberMode >>

\* sbInsertBooking threw: the error toast, and reservar returns
InsertFail(s, i) ==
  /\ i \in 1..Len(tasks[s])
  /\ tasks[s][i].k = "insert"
  /\ tasks' = [tasks EXCEPT ![s] = RemoveAt(@, i)]
  /\ toast' = "erroSalvar"
  /\ consoleErro' = TRUE
  /\ UNCHANGED << supabase, dbServices, adminTasks,
                  db, lsBookings, nextId, services, bookings, cfg,
                  servId, date, inicio, barberMode >>

(* ------------------------------ cancelar ------------------------------ *)
\* async function cancelar(id), up to its first await; id is a booking of
\* the rendered day list (doDia)
Cancelar(s, id) ==
  /\ id \in { b.id : b \in getDayBookings(bookings[s], date[s]) }
  /\ IF ~barberMode[s]
     THEN /\ toast' = "negado"
          /\ consoleErro' = FALSE
          /\ UNCHANGED << bookings, lsBookings, tasks >>
     ELSE IF supabase
     THEN /\ Len(tasks[s]) < MaxTasks
          /\ tasks' = [tasks EXCEPT ![s] =
                         Append(@, Task("delete", dateToISO(date[s]), 0, 0, 0, id))]
          /\ toast' = "none"
          /\ consoleErro' = FALSE
          /\ UNCHANGED << bookings, lsBookings >>
     ELSE /\ LET list == { b \in bookings[s] : b.id # id } IN
               /\ bookings' = [bookings EXCEPT ![s] = list]
               /\ lsBookings' = list
          /\ toast' = "cancelado"
          /\ consoleErro' = FALSE
          /\ UNCHANGED tasks
  /\ UNCHANGED << supabase, dbServices, adminTasks,
                  db, nextId, services, cfg, servId, date, inicio,
                  barberMode >>

\* cancelar after await sbDeleteBooking(id): the row is gone, the toast is
\* shown and the day is fetched again
DeleteDone(s, i) ==
  /\ i \in 1..Len(tasks[s])
  /\ tasks[s][i].k = "delete"
  /\ LET t == tasks[s][i] IN
       /\ db' = { b \in db : b.id # t.id }
       /\ tasks' = [tasks EXCEPT ![s] = ReplaceAt(@, i, FetchTask("refetchC", t.iso))]
       /\ toast' = "cancelado"
       /\ consoleErro' = FALSE
  /\ UNCHANGED << supabase, dbServices, adminTasks,
                  lsBookings, nextId, services, bookings, cfg, servId,
                  date, inicio, barberMode >>

\* sbDeleteBooking threw: the error toast, and cancelar returns
DeleteFail(s, i) ==
  /\ i \in 1..Len(tasks[s])
  /\ tasks[s][i].k = "delete"
  /\ toast' = "erroCancelar"
  /\ consoleErro' = TRUE
  /\ tasks' = [tasks EXCEPT ![s] = RemoveAt(@, i)]
  /\ UNCHANGED << supabase, dbServices, adminTasks,
                  db, lsBookings, nextId, services, bookings, cfg,
                  servId, date, inicio, barberMode >>

(* ----------------------------- addService ----------------------------- *)
MaxNovos == 1       \* services ever added through the AdminPanel

\* What the administrator types as the name of the new service
NomeChoices == {" ", "Luzes"}

\* What the administrator types into "Duracao (min)": Number(e.target.value),
\* 0 for the emptied field
DuracaoChoices == {0, 20}

\* An awaited call of addService: k is its kind, dur the duracaoMin of novo
AdminTask(k, dur) == [k |-> k, dur |-> dur]

\* async function addService(), up to its first await.  The AdminPanel is
\* rendered in barber mode only.  Without Supabase the service gets its id
\* and is appended to the services state.
addService(s, nome, dur) ==
  /\ barberMode[s]
  /\ IF trim(nome) = ""
     THEN Rejeitar(s, "semNome")
     ELSE IF supabase
     THEN /\ Len(adminTasks[s]) < MaxTasks
          /\ Len(dbServices) < MaxNovos
          /\ adminTasks' = [adminTasks EXCEPT ![s] =
                              Append(@, AdminTask("insertService", dur))]
          /\ toast' = "none"
          /\ consoleErro' = FALSE
          /\ UNCHANGED << supabase, db, dbServices, lsBookings, nextId, services,
                          bookings, cfg, servId, date, inicio, barberMode, tasks >>
     ELSE /\ Len(services[s]) < Len(defaultServices) + MaxNovos
          /\ services' = [services EXCEPT ![s] =
                            Append(@, [id |-> Len(@) + 1, duracaoMin |-> dur])]
          /\ toast' = "none"
          /\ consoleErro' = FALSE
          /\ UNCHANGED << supabase, db, dbServices, lsBookings, nextId, bookings,
                          cfg, servId, date, inicio, barberMode, tasks,
                          adminTasks >>

\* addService after await sbInsertService(novo): the row is in the table, the
\* toast is shown and the catalog is fetched
InsertServiceDone(s, i) ==
  /\ i \in 1..Len(adminTasks[s])
  /\ adminTasks[s][i].k = "insertService"
  /\ dbServices' = Append(dbServices,
                          [id |-> Len(defaultServices) + Len(dbServices) + 1,
                           duracaoMin |-> adminTasks[s][i].dur])
  /\ adminTasks' = [adminTasks EXCEPT ![s] =
                      ReplaceAt(@, i, AdminTask("fetchServices", 0))]
  /\ toast' = "servicoAdicionado"
  /\ consoleErro' = FALSE
  /\ UNCHANGED << supabase, db, lsBookings, nextId, services, bookings, cfg,
                  servId, date, inicio, barberMode, tasks >>

\* sbInsertService threw: the error toast, and addService goes on to fetch
InsertServiceFail(s, i) ==
  /\ i \in 1..Len(adminTasks[s])
  /\ adminTasks[s][i].k = "insertService"
  /\ adminTasks' = [adminTasks EXCEPT ![s] =
                      ReplaceAt(@, i, AdminTask("fetchServices", 0))]
  /\ toast' = "erroServico"
  /\ consoleErro' = TRUE
  /\ UNCHANGED << supabase, db, dbServices, lsBookings, nextId, services,
                  bookings, cfg, servId, date, inicio, barberMode, tasks >>

\* sbFetchServices() returned the rows: if (s) setServices(s)
FetchServicesDone(s, i) ==
  /\ i \in 1..Len(adminTasks[s])
  /\ adminTasks[s][i].k = "fetchServices"
  /\ services' = [services EXCEPT ![s] = dbServices]
  /\ adminTasks' = [adminTasks EXCEPT ![s] = RemoveAt(@, i)]
  /\ toast' = "none"
  /\ consoleErro' = FALSE
  /\ UNCHANGED << supabase, db, dbServices, lsBookings, nextId, bookings, cfg,
                  servId, date, inicio, barberMode, tasks >>

\* sbFetchServices() logged the error and returned null
FetchServicesFail(s, i) ==
  /\ i \in 1..Len(adminTasks[s])
  /\ adminTasks[s][i].k = "fetchServices"
  /\ adminTasks' = [adminTasks EXCEPT ![s] = RemoveAt(@, i)]
  /\ toast' = "none"
  /\ consoleErro' = TRUE
  /\ UNCHANGED << supabase, db, dbServices, lsBookings, nextId, services,
                  bookings, cfg, servId, date, inicio, barberMode, tasks >>

(* --------------------------- day fetches ------------------------------ *)
FetchKinds == {"fetch", "refetchR", "refetchC"}

\* sbFetchBookingsByISO(iso) returned the rows of the day: setBookings(day);
\* saveBookingsLocal(day); reservar then clears its form
FetchDone(s, i) ==
  /\ i \in 1..Len(tasks[s])
  /\ tasks[s][i].k \in FetchKinds
  /\ LET t == tasks[s][i]
         day == { b \in db : b.dataISO = t.iso } IN
       /\ bookings' = [bookings EXCEPT ![s] = day]
       /\ lsBookings' = day
       /\ inicio' = [inicio EXCEPT ![s] = IF t.k = "refetchR" THEN undefined ELSE @]
  /\ tasks' = [tasks EXCEPT ![s] = RemoveAt(@, i)]
  /\ toast' = "none"
  /\ consoleErro' = FALSE
  /\ UNCHANGED << supabase, dbServices, adminTasks,
                  db, nextId, services, cfg, servId, date, barberMode >>

\* sbFetchBookingsByISO(iso) logged the error and returned null: the caller's
\* if (day) skips the update; reservar still clears its form
FetchFail(s, i) ==
  /\ i \in 1..Len(tasks[s])
  /\ tasks[s][i].k \in FetchKinds
  /\ inicio' = [inicio EXCEPT ![s] =
                  IF tasks[s][i].k = "refetchR" THEN undefined ELSE @]
  /\ tasks' = [tasks EXCEPT ![s] = RemoveAt(@, i)]
  /\ toast' = "none"
  /\ consoleErro' = TRUE
  /\ UNCHANGED << supabase, dbServices, adminTasks,
                  db, lsBookings, nextId, services, bookings, cfg,
                  servId, date, barberMode >>

(* --------------------------- specification ---------------------------- *)
\* What the user of App instance s can do without the PIN
Usa(s) ==
  \/ \E i \in 1..MaxServ : SelectService(s, i)
  \/ SelectSlot(s)
  \/ \E n \in Days : SetDate(s, n)
  \/ \E c \in ClienteChoices : Reservar(s, c)
  \/ \E id \in 1..MaxBookings : Cancelar(s, id)

\* An awaited insert or day fetch of App instance s returns without error
Responde(s) ==
  \/ \E i \in 1..MaxTasks : InsertDone(s, i)
  \/ \E i \in 1..MaxTasks : FetchDone(s, i)

\* An awaited insert or day fetch of App instance s fails
Falha(s) ==
  \/ \E i \in 1..MaxTasks : InsertFail(s, i)
  \/ \E i \in 1..MaxTasks : FetchFail(s, i)

\* The PIN dialog of App instance s, and what the barber mode gives access to
Barbeiro(s) ==
  \/ \E pin \in PinChoices : EntrarModoBarbeiro(s, pin)
  \/ SairModoBarbeiro(s)
  \/ AdminEdit(s)
  \/ \E i \in 1..MaxTasks : DeleteDone(s, i)
  \/ \E i \in 1..MaxTasks : DeleteFail(s, i)

\* One App instance, used by clients and by the barber; store calls may fail
Next == Usa(1) \/ Responde(1) \/ Falha(1) \/ Barbeiro(1)

Spec == Init /\ [][Next]_vars

\* Every App instance, each used by a client; no store call fails
NextTabs == \E s \in Sessions : Usa(s) \/ Responde(s)

SpecTabs == Init /\ [][NextTabs]_vars

(* ------------------- the administrator's edits ------------------------ *)
\* What the administrator types into "Tamanho do slot (min)": 0 for the
\* emptied field
IntervaloChoices == {0}

\* The AdminPanel input that calls updateCfg("intervaloMin", ...)
AdminEditIntervalo(s) ==
  \E v \in IntervaloChoices : updateCfg(s, "intervaloMin", v)

\* The "Adicionar" button of the AdminPanel and the calls addService awaits
AdminServices(s) ==
  \/ \E nome \in NomeChoices : \E dur \in DuracaoChoices : addService(s, nome, dur)
  \/ \E i \in 1..MaxTasks : InsertServiceDone(s, i)
  \/ \E i \in 1..MaxTasks : InsertServiceFail(s, i)
  \/ \E i \in 1..MaxTasks : FetchServicesDone(s, i)
  \/ \E i \in 1..MaxTasks : FetchServicesFail(s, i)

\* One App instance in which the barber edits the catalog and the config and
\* a client books; the booking calls succeed
NextAdmin ==
  \/ EntrarModoBarbeiro(1, 1801)
  \/ AdminServices(1)
  \/ AdminEdit(1)
  \/ AdminEditIntervalo(1)
  \/ \E i \in 1..(Len(defaultServices) + MaxNovos) : SelectService(1, i)
  \/ SelectSlot(1)
  \/ \E c \in ClienteChoices : Reservar(1, c)
  \/ Responde(1)

SpecAdmin == Init /\ [][NextAdmin]_vars

(* ------------------------ changing the date --------------------------- *)
MaxFetches == 2     \* day fetches one App instance may have in flight

\* One App instance whose client changes the date while day fetches are in
\* flight, and books; every store call succeeds
NextDatas ==
  \/ \E n \in Days : SetDateAte(1, n, MaxFetches)
  \/ SelectSlot(1)
  \/ Reservar(1, "Ana")
  \/ InsertDone(1, 1)
  \/ \E i \in 1..MaxFetches : FetchDone(1, i)

SpecDatas == Init /\ [][NextDatas]_vars

(* ------------------ the slot computation on its own ------------------- *)
\* Inputs of the slot computation: configurations, bookings
AberturaInputs == { <<9, 0>>, <<9, 10>> }

FechamentoInputs == { <<19, 0>>, <<10, 0>>, <<9, 30>>, <<9, 0>> }

IntervaloInputs == {15, 20, 45, 0, -5}

DiasInputs == { {1, 2, 3, 4, 5, 6}, {2, 3, 4, 5, 6} }

CfgInputs ==
  { [intervaloMin |-> g, diasAtivos |-> ds, horaAbertura |-> a, horaFechamento |-> f] :
      g \in IntervaloInputs, ds \in DiasInputs, a \in AberturaInputs,
      f \in FechamentoInputs }

BookingInputs ==
  { comId(1, [dataISO |-> 1, inicioMin |-> 600, fimMin |-> 645, servicoId |-> 1]),
    comId(2, [dataISO |-> 1, inicioMin |-> 540, fimMin |-> 555, servicoId |-> 4]),
    comId(3, [dataISO |-> 2, inicioMin |-> 540, fimMin |-> 615, servicoId |-> 3]),
    comId(4, [dataISO |-> 1, inicioMin |-> 1095, fimMin |-> 1140, servicoId |-> 1]) }

\* App instance 1 holds any of the inputs; nothing is in flight
InitSlots ==
  /\ supabase = FALSE
  /\ db = {}
  /\ dbServices = << >>
  /\ adminTasks = [s \in Sessions |-> << >>]
  /\ lsBookings = {}
  /\ nextId = 1
  /\ services = [s \in Sessions |-> defaultServices]
  /\ \E bks \in SUBSET BookingInputs :
       bookings = [s \in Sessions |-> IF s = 1 THEN bks ELSE {}]
  /\ \E c \in CfgInputs :
       cfg = [s \in Sessions |-> IF s = 1 THEN c ELSE defaultConfig]
  /\ \E i \in 1..Len(defaultServices) :
       servId = [s \in Sessions |-> IF s = 1 THEN defaultServices[i].id
                                             ELSE defaultServices[1].id]
  /\ \E n \in Days :
       date = [s \in Sessions |-> IF s = 1 THEN diaDoCalendario(n) ELSE hoje]
  /\ inicio = [s \in Sessions |-> undefined]
  /\ barberMode = [s \in Sessions |-> FALSE]
  /\ tasks = [s \in Sessions |-> << >>]
  /\ toast = "none"
  /\ consoleErro = FALSE

\* The slot list is rendered and one of its buttons clicked
NextSlots == SelectSlot(1)

SpecSlots == InitSlots /\ [][NextSlots]_vars

(* ============================== claims ================================ *)
\* The persistent store of bookings: the remote table, or localStorage when
\* there is no Supabase client
Store == IF supabase THEN db ELSE lsBookings

Range(seq) == { seq[i] : i \in 1..Len(seq) }

\* reservar got past its four early returns
EntradaValida(s, c) == resultadoReservar(s, c) # "invalido"

\* C1: in every reachable state of the persistent store, no two stored
\* bookings of one day key have overlapping intervals [inicioMin, fimMin).
C1_NoOverlapInStore ==
  \A a \in Store : \A b \in Store :
    (a # b /\ a.dataISO = b.dataISO)
      => ~overlaps(a.inicioMin, a.fimMin, b.inicioMin, b.fimMin)

\* C2: whenever reservar is invoked while the store holds a booking of the
\* selected day that overlaps the proposed interval, it shows the conflict
\* toast and neither writes to a store nor sends an insert.
C2_RevalidatesAgainstStore ==
  [][ \A s \in Sessions : \A c \in ClienteChoices :
        ( /\ Reservar(s, c)
          /\ EntradaValida(s, c)
          /\ \E b \in Store :
               /\ b.dataISO = dateToISO(date[s])
               /\ overlaps(inicio[s], inicio[s] + servico(s).duracaoMin,
                           b.inicioMin, b.fimMin) )
        => (toast' = "conflito" /\ UNCHANGED << db, lsBookings, tasks >>) ]_vars

\* C3: reservar shows the conflict toast iff some booking b of the bookings
\* state has inicio < b.fimMin and b.inicioMin < fim; an interval that only
\* touches a booking is not flagged.
C3_ConflictIsHalfOpenOverlap ==
  [][ \A s \in Sessions : \A c \in ClienteChoices :
        (Reservar(s, c) /\ EntradaValida(s, c))
        => ( toast' = "conflito"
             <=> \E b \in bookings[s] :
                   /\ inicio[s] < b.fimMin
                   /\ b.inicioMin < inicio[s] + servico(s).duracaoMin ) ]_vars

\* C3 witness: without Supabase, reservar has just confirmed a booking that
\* starts exactly where another booking of the day ends.
C3_Witness ==
  /\ ~supabase
  /\ toast = "confirmado"
  /\ \E a \in bookings[1] : \E b \in bookings[1] :
       a.dataISO = b.dataISO /\ a.fimMin = b.inicioMin

\* C4: a booking stored under another day key never removes a slot offered
\* for the selected date and never makes reservar report a conflict.
C4_DayKeyIsolation ==
  [][ \A s \in Sessions :
        /\ temServico(s) =>
             slotsDisponiveis(cfg[s], servico(s), date[s], bookings[s]).slots
               = slotsDisponiveis(cfg[s], servico(s), date[s],
                                  getDayBookings(bookings[s], date[s])).slots
        /\ \A c \in ClienteChoices :
             (Reservar(s, c) /\ toast' = "conflito")
             => \E b \in getDayBookings(bookings[s], date[s]) :
                  overlaps(inicio[s], inicio[s] + servico(s).duracaoMin,
                           b.inicioMin, b.fimMin) ]_vars

\* The starts opening + k * granularity that fit before closing and overlap
\* no booking of the day
SlotsEsperados(c, dur, busy) ==
  { t \in timeToMin(c.horaAbertura)..(timeToMin(c.horaFechamento) - dur) :
      /\ (t - timeToMin(c.horaAbertura)) % c.intervaloMin = 0
      /\ \A b \in busy : ~overlaps(t, t + dur, b.inicioMin, b.fimMin) }

\* C5: for a valid config and a date whose weekday is active, the slot list
\* holds, in strictly ascending order, exactly the starts on the grid from
\* opening that end by closing and overlap no booking of the same day key;
\* it is empty when the duration exceeds the open window.
C5_SlotsAreExactlyTheFreeGridStarts ==
  \A s \in Sessions :
    (temServico(s) /\ ~configInvalida(cfg[s]) /\ diaAtivo(s)) =>
      LET r     == disponiveis(s)
          dur   == servico(s).duracaoMin
          open  == timeToMin(cfg[s].horaAbertura)
          close == timeToMin(cfg[s].horaFechamento)
      IN  /\ Range(r) = SlotsEsperados(cfg[s], dur,
                                       getDayBookings(bookings[s], date[s]))
          /\ \A i \in 1..Len(r) : \A j \in 1..Len(r) : i < j => r[i] < r[j]
          /\ \A i \in 1..Len(r) : open <= r[i] /\ r[i] + dur <= close
          /\ (dur > close - open => r = << >>)

\* C5 witness: a slot list with a gap left by a booking of the day, while a
\* booking of another day is held too, and one of its slots clicked.
C5_Witness ==
  /\ inicio[1] # undefined
  /\ \E b \in bookings[1] : b.dataISO # dateToISO(date[1])
  /\ \E b \in bookings[1] :
       /\ b.dataISO = dateToISO(date[1])
       /\ b.inicioMin \notin Range(disponiveis(1))
       /\ b.fimMin \in Range(disponiveis(1))

\* The configuration and input of the example: 09:00 to 19:00 by 15 minutes,
\* a 45-minute service, no bookings
C6_Exemplo(s) ==
  /\ cfg[s].horaAbertura = <<9, 0>>
  /\ cfg[s].horaFechamento = <<19, 0>>
  /\ cfg[s].intervaloMin = 15
  /\ temServico(s)
  /\ servico(s).duracaoMin = 45
  /\ diaAtivo(s)
  /\ bookings[s] = {}

\* C6 as stated: with opening 540, closing 1140, granularity 15, duration 45
\* and no bookings, the slot list starts at 540, ends at 1095 and has 37
\* entries.
C6_DefaultDayHas37Slots ==
  \A s \in Sessions :
    C6_Exemplo(s) =>
      LET r == disponiveis(s) IN
        /\ Len(r) = 37
        /\ r[1] = 540
        /\ r[Len(r)] = 1095

\* C6 as amended: with opening 540, closing 1140, granularity 15, duration 45
\* and no bookings, the slot list starts at 540, ends at 1095 and has 38
\* entries ((1140 - 540 - 45) / 15 + 1).
C6_DefaultDayHas38Slots ==
  \A s \in Sessions :
    C6_Exemplo(s) =>
      LET r == disponiveis(s) IN
        /\ Len(r) = 38
        /\ r[1] = 540
        /\ r[Len(r)] = 1095

\* C6 witness: the example's inputs, and the first slot of its list clicked.
C6_Witness == C6_Exemplo(1) /\ inicio[1] = 540

\* C7: reservar goes on to commit only a start that the slot computation
\* returns for the config, service, date and bookings of that moment.
C7_CommitsOnlyOfferedSlots ==
  [][ \A s \in Sessions : \A c \in ClienteChoices :
        (Reservar(s, c) /\ resultadoReservar(s, c) = "ok")
        => inicio[s] \in Range(disponiveis(s)) ]_vars

\* C8: a stored booking leaves the store only by cancelar of its id invoked
\* in barber mode, which removes that booking and no other; every other step
\* leaves every stored booking in the store unchanged.
C8_OnlyAuthorizedCancelRemoves ==
  [][ (Store \ Store' # {})
      => \E s \in Sessions :
           \/ /\ ~supabase
              /\ barberMode[s]
              /\ \E id \in 1..MaxBookings :
                   /\ Cancelar(s, id)
                   /\ Store \ Store' = { b \in Store : b.id = id }
           \/ /\ supabase
              /\ \E i \in 1..Len(tasks[s]) :
                   /\ DeleteDone(s, i)
                   /\ Store \ Store' = { b \in Store : b.id = tasks[s][i].id } ]_vars

\* C9: whenever reservar finds the proposed interval in conflict with a
\* booking of the bookings state, it shows the conflict toast, sends no
\* insert, and leaves the bookings state and both stores as they were.
C9_ConflictCommitsNothing ==
  [][ \A s \in Sessions : \A c \in ClienteChoices :
        ( /\ Reservar(s, c)
          /\ EntradaValida(s, c)
          /\ \E b \in bookings[s] :
               overlaps(inicio[s], inicio[s] + servico(s).duracaoMin,
                        b.inicioMin, b.fimMin) )
        => ( /\ toast' = "conflito"
             /\ UNCHANGED << db, lsBookings, bookings, tasks, nextId >> ) ]_vars

\* C9 witness: the conflict toast is up and the bookings state holds a
\* booking that overlaps the interval still selected.
C9_Witness ==
  /\ toast = "conflito"
  /\ \E b \in bookings[1] :
       overlaps(inicio[1], inicio[1] + servico(1).duracaoMin,
                b.inicioMin, b.fimMin)

\* The toasts that report a failed store operation
ErroDeStore == {"erroSalvar", "erroCancelar"}

\* C10: every failed persistence operation (a day read, an insert, a delete)
\* shows a store-error toast.
C10_StoreFailuresAreSurfaced ==
  [][ \A s \in Sessions : \A i \in 1..Len(tasks[s]) :
        (FetchFail(s, i) \/ InsertFail(s, i) \/ DeleteFail(s, i))
        => toast' \in ErroDeStore ]_vars

\* The outcome of the slot computation for the state of App instance s
C11_Resultado(s) == slotsDisponiveis(cfg[s], servico(s), date[s], bookings[s])

C12_StoredIntervalsAreWellFormed ==
  \A b \in db \cup lsBookings :
    /\ 0 <= b.inicioMin
    /\ b.inicioMin < 1440
    /\ b.inicioMin < b.fimMin
    /\ b.fimMin <= 1440

\* C13: in every reachable state the config an App instance holds has a
\* positive intervaloMin, timeToMin(horaAbertura) < timeToMin(horaFechamento)
\* and diasAtivos within {0, ..., 6}.
C13_ConfigIsValid ==
  \A s \in Sessions :
    /\ cfg[s].intervaloMin > 0
    /\ timeToMin(cfg[s].horaAbertura) < timeToMin(cfg[s].horaFechamento)
    /\ cfg[s].diasAtivos \subseteq 0..6

\* C14: with Supabase, once no awaited call of an App instance is in flight
\* (every day fetch has returned its rows), the bookings state holds exactly
\* the table's bookings of the selected date.
C14_SnapshotConvergesToSelectedDate ==
  \A s \in Sessions :
    (supabase /\ tasks[s] = << >>)
      => bookings[s] = getDayBookings(db, date[s])

====
